---- MODULE Spec2Model ----
(***************************************************************************)
(* pytest-otel plugin hooks (src/pytest_otel/src/pytest_otel/plugin.py):   *)
(* the enable/disable gate, the tracked-outcome table _test_outcomes, the  *)
(* generator wrapper pytest_runtest_protocol around one test execution and *)
(* the report hook pytest_runtest_makereport.                              *)
(*                                                                         *)
(* A hook wrapper is a generator: the code up to its yield and the code    *)
(* after it are two steps, with the wrapped execution (and the report      *)
(* hooks it fires) in between.  The calls the wrapper makes on the tracer  *)
(* module are observed in `trace`; whether such a call raises is an input  *)
(* of the step.                                                            *)
(***************************************************************************)
EXTENDS Integers, Sequences, FiniteSets, TLC

VARIABLES
    _enabled,        \* plugin.py:21
    _log_handler,    \* plugin.py:22, None or the id of an OtelLogHandler
    root_handlers,   \* handlers attached to logging.getLogger()
    made,            \* number of OtelLogHandler objects constructed so far
    _test_outcomes,  \* plugin.py:25, nodeid -> tracked outcome (Absent: no key)
    pc,              \* per wrapper frame: where pytest_runtest_protocol is
    item,            \* per frame: item.nodeid of the execution
    wrapped,         \* per frame: how the wrapped execution (the yield) ended
    exit,            \* per frame: how pytest_runtest_protocol itself ended
    trace,           \* per frame: the wrapper's yield and tracer calls, in order
    seen,            \* per frame: what the reports of this execution contained
    hist,            \* per frame: the reports recorded since the entry was cleared
    last,            \* the latest session or report hook call: what it was given and did
    log              \* the latest record handled by OtelLogHandler.emit and what it did

vars == <<_enabled, _log_handler, root_handlers, made, _test_outcomes,
          pc, item, wrapped, exit, trace, seen, hist, last, log>>

----------------------------------------------------------------------------
(* Bounds of the model *)

MaxReports == 2      \* length of the report history kept by SpecOrder
MaxHandlers == 2     \* OtelLogHandler objects that may be constructed
MaxLevel == 55       \* log levels run from -MaxLevel to MaxLevel

----------------------------------------------------------------------------
(* Values *)

NodeIds == {"t1", "t2"}
Frames == {"f1", "f2"}
SeqFrames == {"f1"}         \* one thread of control: a single wrapper frame
None == <<>>                \* no handler; a handler object is <<id>>
Absent == "absent"
Phases == {"setup", "call", "teardown"}
RawOutcomes == {"passed", "failed", "skipped"}
Reports == [when : Phases, failed : BOOLEAN, skipped : BOOLEAN, outcome : RawOutcomes]

\* What the wrapped execution can do at the yield: return a value, raise an
\* ordinary Exception, or raise a BaseException that is no Exception.
ResultValues == {"True", "None"}
Exceptions == {"InternalError"}
BaseOnly == {"KeyboardInterrupt"}
Hows == [kind : {"return"}, val : ResultValues]
          \cup [kind : {"raise"}, val : Exceptions \cup BaseOnly]
NoHow == [kind |-> "none", val |-> "-"]
RecordError == "RecordError"   \* what a failing tracer.record_exception raises

Ev(op, arg, ok) == [op |-> op, arg |-> arg, ok |-> ok]

\* Dagger's stream numbers: logging_handler.py:29-30.
STDIO_STREAM_STDOUT == 1
STDIO_STREAM_STDERR == 2
\* The size limits of _capture_test_output: plugin.py:229, 234, 240.
StdioCap == 8192
ReprCap == 16384

\* A text is the first len characters of the stream src: slicing from the
\* start changes len alone.  The empty text stands for "", None and a missing
\* attribute alike (all falsy at plugin.py:228, 233, 239).
Text(src, len) == [src |-> src, len |-> len]
StdioLens == {0, StdioCap, StdioCap + 1}
ReprLens == {0, ReprCap, ReprCap + 1}

\* Reports carrying captured output, as pytest builds them.
CaptureReports ==
    {r \in [when : Phases, failed : BOOLEAN, skipped : {FALSE},
            outcome : {"passed", "failed"},
            capstdout : {Text("capstdout", n) : n \in StdioLens},
            capstderr : {Text("capstderr", n) : n \in StdioLens},
            longrepr : {Text("longrepr", n) : n \in ReprLens}] :
        r.failed <=> r.outcome = "failed"}

\* What tracer.get_test_span(item) returns: None, or the span registered for
\* the item, which is recording or not.
NoSpan == [id |-> "None", recording |-> FALSE]
SpanOf(n, kind) ==
    IF kind = "none" THEN NoSpan ELSE [id |-> n, recording |-> kind = "recording"]
SpanKinds == {"none", "recording", "not_recording"}

\* How the collaborators of one report hook call behave.
IOs == [span : SpanKinds, span_raises : BOOLEAN, logger_raises : BOOLEAN,
        emit_raises : BOOLEAN, rec_raises : BOOLEAN]

NoHook == [hook |-> "none"]
NoLog == [handled |-> FALSE, cached |-> FALSE]
NoSeen == [failed |-> FALSE, skipped |-> FALSE, conflicting |-> FALSE, late |-> FALSE]

----------------------------------------------------------------------------
(* Helpers, as the code computes them *)

\* dict.get(nodeid, "passed")
Get(d, n) == IF d[n] = Absent THEN "passed" ELSE d[n]

\* Faulty variant: the whole table is cleared.
Pop_ClearsAll(d, n) == [m \in DOMAIN d |-> Absent]

\* Faulty variant: nothing is removed.
Pop_Keeps(d, n) == d

\* dict.pop(nodeid, None)
Pop(d, n) == [d EXCEPT ![n] = Absent]

\* Faulty variants of Track, against which the theorems are tested:
\* a failure recorded only over a passed outcome,
Track_FailedGuarded(entry, report) ==
    LET current_outcome == IF entry = Absent THEN "passed" ELSE entry
    IN  IF report.failed /\ current_outcome = "passed" THEN "failed"
        ELSE IF report.skipped /\ current_outcome = "passed" THEN "skipped"
        ELSE IF report.when = "call" /\ current_outcome = "passed" THEN report.outcome
        ELSE entry

\* a skip recorded over whatever was tracked,
Track_SkipOverwrites(entry, report) ==
    LET current_outcome == IF entry = Absent THEN "passed" ELSE entry
    IN  IF report.failed THEN "failed"
        ELSE IF report.skipped THEN "skipped"
        ELSE IF report.when = "call" /\ current_outcome = "passed" THEN report.outcome
        ELSE entry

\* the call outcome recorded over whatever was tracked.
Track_CallOverwrites(entry, report) ==
    LET current_outcome == IF entry = Absent THEN "passed" ELSE entry
    IN  IF report.failed THEN "failed"
        ELSE IF report.skipped /\ current_outcome = "passed" THEN "skipped"
        ELSE IF report.when = "call" THEN report.outcome
        ELSE entry

\* The entry of the table after a report: plugin.py:170-180.
Track(entry, report) ==
    LET current_outcome == IF entry = Absent THEN "passed" ELSE entry
    IN  IF report.failed THEN "failed"
        ELSE IF report.skipped /\ current_outcome = "passed" THEN "skipped"
        ELSE IF report.when = "call" /\ current_outcome = "passed" THEN report.outcome
        ELSE entry

\* `except Exception` catches it
IsException(e) == e \in Exceptions

\* Faulty variant: the tracked outcome is never read back.
OutcomeAtExit_Stale(tracked, how) ==
    IF how.kind = "return" THEN "passed"
    ELSE IF IsException(how.val) THEN "error"
    ELSE "passed"

\* The local `outcome` on reaching the finally block: plugin.py:135-144.
OutcomeAtExit(tracked, how) ==
    IF how.kind = "return" THEN tracked
    ELSE IF IsException(how.val) THEN "error"
    ELSE "passed"

\* Faulty variant: a failure of tracer.end_test is not caught.
Propagated_EndLeaks(how, recRaises, endRaises) ==
    IF endRaises THEN [kind |-> "raise", val |-> "EndError"]
    ELSE IF how.kind = "return" THEN how
    ELSE IF IsException(how.val) /\ recRaises THEN [kind |-> "raise", val |-> RecordError]
    ELSE how

\* How the instrumented wrapper ends: plugin.py:136-155.
Propagated(how, recRaises, endRaises) ==
    IF how.kind = "return" THEN how
    ELSE IF IsException(how.val) /\ recRaises THEN [kind |-> "raise", val |-> RecordError]
    ELSE how

\* Faulty variant: the cleanup follows the handler instead of being a finally.
ExitEvents_NoFinally(how, outcome, recRaises, endRaises) ==
    (IF how.kind = "raise" /\ IsException(how.val)
        THEN <<Ev("record_exception", how.val, ~recRaises)>> ELSE <<>>)
    \o (IF how.kind = "raise" /\ IsException(how.val) /\ recRaises THEN <<>>
        ELSE <<Ev("pop", "-", TRUE), Ev("end_test", outcome, ~endRaises)>>)

\* Faulty variant: the span is ended before the entry is removed.
ExitEvents_EndFirst(how, outcome, recRaises, endRaises) ==
    (IF how.kind = "raise" /\ IsException(how.val)
        THEN <<Ev("record_exception", how.val, ~recRaises)>> ELSE <<>>)
    \o <<Ev("end_test", outcome, ~endRaises), Ev("pop", "-", TRUE)>>

\* The tracer calls after the yield, in order: plugin.py:143-155.
ExitEvents(how, outcome, recRaises, endRaises) ==
    (IF how.kind = "raise" /\ IsException(how.val)
        THEN <<Ev("record_exception", how.val, ~recRaises)>> ELSE <<>>)
    \o <<Ev("pop", "-", TRUE), Ev("end_test", outcome, ~endRaises)>>

\* A call report that is neither failed nor skipped and yet carries a raw
\* outcome other than passed.
Conflicting(r) == ~r.failed /\ ~r.skipped /\ r.when = "call" /\ r.outcome # "passed"

Observe(s, r) ==
    [failed |-> s.failed \/ r.failed,
     skipped |-> s.skipped \/ r.skipped,
     conflicting |-> s.conflicting \/ Conflicting(r),
     late |-> s.late \/ s.failed]

----------------------------------------------------------------------------
(* Captured output: _capture_test_output and emit_stdio_log *)

\* Faulty variant: text[:cap - 1]
Slice_OneShort(text, cap) == [text EXCEPT !.len = IF @ > cap - 1 THEN cap - 1 ELSE @]

\* text[:cap]
Slice(text, cap) == [text EXCEPT !.len = IF @ > cap THEN cap ELSE @]

Truthy(text) == text.len > 0

\* Faulty variant: only call reports are looked at.
Eligible_CallOnly(report) == report.when = "call"

\* plugin.py:216 returns early exactly when this is false.
Eligible(report) == report.when = "call" \/ report.failed

\* Faulty variant: the failure detail is emitted whether or not the report
\* is failed.
CaptureParts_DetailAlways(report) ==
    (IF Truthy(report.capstdout)
        THEN <<[body |-> Slice(report.capstdout, StdioCap), stream |-> STDIO_STREAM_STDOUT]>>
        ELSE <<>>)
    \o (IF Truthy(report.capstderr)
        THEN <<[body |-> Slice(report.capstderr, StdioCap), stream |-> STDIO_STREAM_STDERR]>>
        ELSE <<>>)
    \o (IF Truthy(report.longrepr)
        THEN <<[body |-> Slice(report.longrepr, ReprCap), stream |-> STDIO_STREAM_STDERR]>>
        ELSE <<>>)

\* plugin.py:228-241: the texts handed to emit_stdio_log, in call order.
CaptureParts(report) ==
    (IF Truthy(report.capstdout)
        THEN <<[body |-> Slice(report.capstdout, StdioCap), stream |-> STDIO_STREAM_STDOUT]>>
        ELSE <<>>)
    \o (IF Truthy(report.capstderr)
        THEN <<[body |-> Slice(report.capstderr, StdioCap), stream |-> STDIO_STREAM_STDERR]>>
        ELSE <<>>)
    \o (IF report.failed /\ Truthy(report.longrepr)
        THEN <<[body |-> Slice(report.longrepr, ReprCap), stream |-> STDIO_STREAM_STDERR]>>
        ELSE <<>>)

\* The context a log record is emitted in: built from a span, or whatever
\* context is current at the time of the call.
Ambient == [kind |-> "current", id |-> "-"]
SpanContext(span) == [kind |-> "span", id |-> span.id]

\* logging_handler.py:160-165
LogContext(span) ==
    IF span # NoSpan /\ span.recording THEN SpanContext(span) ELSE Ambient

\* The attribute keys: logging_handler.py:31-32.
STDIO_STREAM_ATTR == "stdio.stream"
STDIO_EOF_ATTR == "stdio.eof"

\* Faulty variant: every record is marked as the end of its stream.
StdioAttributes_EofAlways(stream, eof) ==
    {<<STDIO_STREAM_ATTR, stream>>, <<STDIO_EOF_ATTR, TRUE>>}

\* logging_handler.py:152-154: the attributes as a set of key/value pairs.
StdioAttributes(stream, eof) ==
    {<<STDIO_STREAM_ATTR, stream>>} \cup (IF eof THEN {<<STDIO_EOF_ATTR, TRUE>>} ELSE {})

\* logging_handler.py:130-179.  get_logger() at line 150 is outside the try:
\* its failure leaves the function; a failure of the pipeline's emit is
\* swallowed at line 177 and the record is lost (ok = FALSE).
emit_stdio_log(body, stream, span, eof, logger_raises, emit_raises) ==
    IF logger_raises
        THEN [raised |-> TRUE, artifacts |-> <<>>]
        ELSE [raised |-> FALSE,
              artifacts |-> <<[body |-> body, stream |-> stream, eof |-> eof,
                               attributes |-> StdioAttributes(stream, eof),
                               ctx |-> LogContext(span), ok |-> ~emit_raises]>>]

\* The emit_stdio_log calls of plugin.py:228-241 one after the other; the
\* first one that raises ends the function.
RECURSIVE EmitAll(_, _, _, _)
EmitAll(parts, span, io, acc) ==
    IF parts = <<>> THEN [raised |-> FALSE, artifacts |-> acc]
    ELSE LET r == emit_stdio_log(Head(parts).body, Head(parts).stream, span, FALSE,
                                 io.logger_raises, io.emit_raises)
         IN  IF r.raised THEN [raised |-> TRUE, artifacts |-> acc]
             ELSE EmitAll(Tail(parts), span, io, acc \o r.artifacts)

\* Faulty variant: output is dropped when no span is registered.
_capture_test_output_NeedsSpan(report, n, io) ==
    IF ~Eligible(report) \/ io.span = "none"
        THEN [raised |-> FALSE, calls |-> <<>>, artifacts |-> <<>>]
    ELSE IF io.span_raises
        THEN [raised |-> TRUE, calls |-> <<Ev("get_test_span", n, FALSE)>>,
              artifacts |-> <<>>]
    ELSE LET r == EmitAll(CaptureParts(report), SpanOf(n, io.span), io, <<>>)
         IN  [raised |-> r.raised, calls |-> <<Ev("get_test_span", n, TRUE)>>,
              artifacts |-> r.artifacts]

\* plugin.py:198-241 for the item n
_capture_test_output(report, n, io) ==
    IF ~Eligible(report)
        THEN [raised |-> FALSE, calls |-> <<>>, artifacts |-> <<>>]
    ELSE IF io.span_raises
        THEN [raised |-> TRUE, calls |-> <<Ev("get_test_span", n, FALSE)>>,
              artifacts |-> <<>>]
    ELSE LET r == EmitAll(CaptureParts(report), SpanOf(n, io.span), io, <<>>)
         IN  [raised |-> r.raised, calls |-> <<Ev("get_test_span", n, TRUE)>>,
              artifacts |-> r.artifacts]

\* Faulty variant: the instrumentation calls are not guarded.
ReportRaises_Unguarded(recRaised, capRaised) == recRaised \/ capRaised

\* plugin.py:184-187 and 190-193: both instrumentation calls sit in
\* try/except Exception, so neither failure leaves the hook.
ReportRaises(recRaised, capRaised) == FALSE

\* plugin.py:163-195 apart from the tracker update: what the report hook
\* calls and emits, and whether it returns the report.
ReportInstrumentation(enabled, n, report, excinfo, io) ==
    IF ~enabled
        THEN [calls |-> <<>>, artifacts |-> <<>>, caught |-> FALSE, raised |-> FALSE]
    ELSE LET recorded == excinfo /\ report.when = "call"
             cap == _capture_test_output(report, n, io)
         IN  [calls |-> (IF recorded THEN <<Ev("record_exception", n, ~io.rec_raises)>>
                                     ELSE <<>>) \o cap.calls,
              artifacts |-> cap.artifacts,
              caught |-> cap.raised,
              raised |-> ReportRaises(recorded /\ io.rec_raises, cap.raised)]

----------------------------------------------------------------------------
(* The logging handler: logging_handler.py *)

\* logging.CRITICAL, ERROR, WARNING, INFO, DEBUG as used at
\* logging_handler.py:36-40 and 46-52.
CRITICAL == 50
ERROR == 40
WARNING == 30
INFO == 20
DEBUG == 10

Levels == (0 - MaxLevel)..MaxLevel
Severities == {"DEBUG", "INFO", "WARN", "ERROR", "FATAL"}

\* Faulty variant: the lookup in _SEVERITY_MAP, known for the named levels
\* only.
_get_severity_Table(level) ==
    CASE level = CRITICAL -> "FATAL"
      [] level = ERROR -> "ERROR"
      [] level = WARNING -> "WARN"
      [] level = INFO -> "INFO"
      [] OTHER -> "DEBUG"

\* logging_handler.py:44-54
_get_severity(level) ==
    IF level >= CRITICAL THEN "FATAL"
    ELSE IF level >= ERROR THEN "ERROR"
    ELSE IF level >= WARNING THEN "WARN"
    ELSE IF level >= INFO THEN "INFO"
    ELSE "DEBUG"

\* record.levelname as logging sets it from record.levelno; "Level" stands
\* for the name "Level <n>" of a level that has no name.
LevelName(level) ==
    CASE level = CRITICAL -> "CRITICAL"
      [] level = ERROR -> "ERROR"
      [] level = WARNING -> "WARNING"
      [] level = INFO -> "INFO"
      [] level = DEBUG -> "DEBUG"
      [] level = 0 -> "NOTSET"
      [] OTHER -> "Level"

\* str.lower() on a level name
Lower(name) ==
    CASE name = "CRITICAL" -> "critical"
      [] name = "ERROR" -> "error"
      [] name = "WARNING" -> "warning"
      [] name = "INFO" -> "info"
      [] name = "DEBUG" -> "debug"
      [] name = "NOTSET" -> "notset"
      [] name = "Level" -> "level"

\* A logging.LogRecord: its level, which of pathname, lineno and funcName are
\* set, and whether it carries an exception.
LogRecords ==
    {[levelno |-> l, levelname |-> LevelName(l), pathname |-> p, lineno |-> n,
      funcName |-> fn, exc_info |-> e] :
        l \in Levels, p \in BOOLEAN, n \in BOOLEAN, fn \in BOOLEAN, e \in BOOLEAN}

\* How the collaborators of one emit call behave.
LogIOs == [format_raises : BOOLEAN, span_recording : BOOLEAN, event_raises : BOOLEAN,
           logger_raises : BOOLEAN, emit_raises : BOOLEAN]

\* logging_handler.py:76-96: the attributes as a set of key/value pairs.
Attributes(record) ==
    {<<"log.logger", "name">>, <<"log.level", record.levelname>>,
     <<"log.message", "msg">>}
    \cup (IF record.pathname THEN {<<"code.filepath", "pathname">>} ELSE {})
    \cup (IF record.lineno THEN {<<"code.lineno", "lineno">>} ELSE {})
    \cup (IF record.funcName THEN {<<"code.function", "funcName">>} ELSE {})
    \cup (IF record.exc_info
            THEN {<<"exception.type", "type">>, <<"exception.message", "str">>}
            ELSE {})

\* logging_handler.py:99-102
SpanEvents(record, io) ==
    IF io.span_recording
        THEN <<[name |-> "log." \o Lower(record.levelname),
                attributes |-> Attributes(record), ok |-> ~io.event_raises]>>
        ELSE <<>>

\* logging_handler.py:105-123: the record given to the pipeline, unless the
\* logger cannot be had; a failure of the pipeline's emit loses it.
PipelineRecords(cached, record, io) ==
    IF ~cached /\ io.logger_raises THEN <<>>
    ELSE <<[severity_text |-> record.levelname,
            severity_number |-> _get_severity(record.levelno),
            body |-> "msg", attributes |-> Attributes(record),
            context |-> Ambient, ok |-> ~io.emit_raises]>>

\* Faulty variant: the span event is added whether or not the span records.
Handled_EventAlways(cached, record, io) ==
    [handled |-> TRUE, record |-> record, io |-> io,
     cached |-> cached \/ ~io.logger_raises,
     events |-> SpanEvents(record, [io EXCEPT !.span_recording = TRUE]),
     records |-> PipelineRecords(cached, record, io),
     handleError |-> FALSE]

\* logging_handler.py:72-127: what one emit call does and leaves behind.
Handled(cached, record, io) ==
    IF io.format_raises
        THEN [handled |-> TRUE, record |-> record, io |-> io, cached |-> cached,
              events |-> <<>>, records |-> <<>>, handleError |-> TRUE]
    ELSE IF io.span_recording /\ io.event_raises
        THEN [handled |-> TRUE, record |-> record, io |-> io, cached |-> cached,
              events |-> SpanEvents(record, io), records |-> <<>>,
              handleError |-> TRUE]
    ELSE [handled |-> TRUE, record |-> record, io |-> io,
          cached |-> cached \/ ~io.logger_raises,
          events |-> SpanEvents(record, io),
          records |-> PipelineRecords(cached, record, io),
          handleError |-> FALSE]

----------------------------------------------------------------------------
(* Initial state: the module just imported *)

Init ==
    /\ _enabled = FALSE
    /\ _log_handler = None
    /\ root_handlers = {}
    /\ made = 0
    /\ _test_outcomes = [n \in NodeIds |-> Absent]
    /\ pc = [f \in Frames |-> "idle"]
    /\ item = [f \in Frames |-> "t1"]
    /\ wrapped = [f \in Frames |-> NoHow]
    /\ exit = [f \in Frames |-> NoHow]
    /\ trace = [f \in Frames |-> <<>>]
    /\ seen = [f \in Frames |-> NoSeen]
    /\ hist = [f \in Frames |-> <<>>]
    /\ last = NoHook
    /\ log = NoLog

NoTestRunning == \A f \in Frames : pc[f] \in {"idle", "exited"}

frameVars == <<pc, item, wrapped, exit, trace, seen>>
configVars == <<_enabled, _log_handler, root_handlers, made>>

----------------------------------------------------------------------------
(* pytest_configure: plugin.py:39-62 *)

pytest_configure(no_otel, configure_raises) ==
    /\ NoTestRunning
    /\ IF no_otel
         THEN UNCHANGED configVars
       ELSE IF configure_raises
         THEN /\ _enabled' = FALSE
              /\ UNCHANGED <<_log_handler, root_handlers, made>>
       ELSE /\ made < MaxHandlers
            /\ _enabled' = TRUE
            /\ made' = made + 1
            /\ _log_handler' = <<made + 1>>
            /\ root_handlers' = root_handlers \cup {<<made + 1>>}
    /\ UNCHANGED <<_test_outcomes, frameVars>>

(* pytest_unconfigure: plugin.py:65-85 *)

pytest_unconfigure(shutdown_raises) ==
    /\ NoTestRunning
    /\ IF ~_enabled
         THEN UNCHANGED configVars
         ELSE /\ IF _log_handler # None
                   THEN /\ root_handlers' = root_handlers \ {_log_handler}
                        /\ _log_handler' = None
                   ELSE UNCHANGED <<root_handlers, _log_handler>>
              /\ _enabled' = FALSE
              /\ UNCHANGED made
    /\ UNCHANGED <<_test_outcomes, frameVars>>

----------------------------------------------------------------------------
(* pytest_runtest_protocol up to its yield: plugin.py:121-137 *)

pytest_runtest_protocol_enter(f, n, start_raises) ==
    /\ pc[f] \in {"idle", "exited"}
    /\ item' = [item EXCEPT ![f] = n]
    /\ wrapped' = [wrapped EXCEPT ![f] = NoHow]
    /\ exit' = [exit EXCEPT ![f] = NoHow]
    /\ seen' = [seen EXCEPT ![f] = NoSeen]
    /\ IF ~_enabled
         THEN /\ pc' = [pc EXCEPT ![f] = "yield122"]
              /\ trace' = [trace EXCEPT ![f] = <<Ev("yield", "-", TRUE)>>]
              /\ UNCHANGED _test_outcomes
         ELSE /\ _test_outcomes' = Pop(_test_outcomes, n)
              /\ pc' = [pc EXCEPT ![f] = IF start_raises THEN "yield132" ELSE "yield137"]
              /\ trace' = [trace EXCEPT ![f] =
                    <<Ev("pop", "-", TRUE), Ev("start_test", "-", ~start_raises),
                      Ev("yield", "-", TRUE)>>]
    /\ UNCHANGED configVars

(* pytest_runtest_protocol from its yield on: plugin.py:122, 132, 137-155 *)

pytest_runtest_protocol_exit(f, how, recRaises, endRaises) ==
    /\ pc[f] \in {"yield122", "yield132", "yield137"}
    /\ pc' = [pc EXCEPT ![f] = "exited"]
    /\ wrapped' = [wrapped EXCEPT ![f] = how]
    /\ IF pc[f] = "yield137"
         THEN LET outcome == OutcomeAtExit(Get(_test_outcomes, item[f]), how)
              IN  /\ exit' = [exit EXCEPT ![f] = Propagated(how, recRaises, endRaises)]
                  /\ trace' = [trace EXCEPT ![f] =
                        @ \o ExitEvents(how, outcome, recRaises, endRaises)]
                  /\ _test_outcomes' = Pop(_test_outcomes, item[f])
         ELSE /\ exit' = [exit EXCEPT ![f] = how]
              /\ UNCHANGED <<trace, _test_outcomes>>
    /\ UNCHANGED <<configVars, item, seen>>

----------------------------------------------------------------------------
(* pytest_runtest_makereport, the tracked outcome: plugin.py:163-180, 195.
   The calls of plugin.py:183-193 (tracer.record_exception and
   _capture_test_output, each inside its own try/except) write none of the
   variables above; ReportInstrumentation gives them, and the specifications
   that follow the captured output keep its value in last. *)

pytest_runtest_makereport(f, report) ==
    /\ pc[f] \in {"yield122", "yield132", "yield137"}
    /\ IF ~_enabled
         THEN UNCHANGED <<_test_outcomes, seen>>
         ELSE /\ _test_outcomes' = [_test_outcomes EXCEPT
                    ![item[f]] = Track(@, report)]
              /\ seen' = [seen EXCEPT ![f] = Observe(@, report)]
    /\ UNCHANGED <<configVars, pc, item, wrapped, exit, trace>>

----------------------------------------------------------------------------
(* pytest_sessionstart: plugin.py:88-97, and pytest_sessionfinish:
   plugin.py:100-109.  Neither writes module state; last keeps the call. *)

ExitStatuses == {0, 1}

pytest_sessionstart(start_raises) ==
    /\ NoTestRunning
    /\ last' = [hook |-> "sessionstart", enabled |-> _enabled,
                calls |-> IF _enabled
                            THEN <<Ev("start_session", "-", ~start_raises)>>
                            ELSE <<>>,
                artifacts |-> <<>>, raised |-> FALSE]
    /\ UNCHANGED <<configVars, _test_outcomes, frameVars>>

pytest_sessionfinish(exitstatus, end_raises) ==
    /\ NoTestRunning
    /\ last' = [hook |-> "sessionfinish", enabled |-> _enabled,
                calls |-> IF _enabled
                            THEN <<Ev("end_session", exitstatus, ~end_raises)>>
                            ELSE <<>>,
                artifacts |-> <<>>, raised |-> FALSE]
    /\ UNCHANGED <<configVars, _test_outcomes, frameVars>>

----------------------------------------------------------------------------
(* The test runner: one thread of control *)

Next ==
    \/ \E no_otel, configure_raises \in BOOLEAN :
          pytest_configure(no_otel, configure_raises) /\ UNCHANGED <<hist, last, log>>
    \/ \E shutdown_raises \in BOOLEAN :
          pytest_unconfigure(shutdown_raises) /\ UNCHANGED <<hist, last, log>>
    \/ \E f \in SeqFrames, n \in NodeIds, start_raises \in BOOLEAN :
          pytest_runtest_protocol_enter(f, n, start_raises) /\ UNCHANGED <<hist, last, log>>
    \/ \E f \in SeqFrames, how \in Hows, recRaises, endRaises \in BOOLEAN :
          pytest_runtest_protocol_exit(f, how, recRaises, endRaises) /\ UNCHANGED <<hist, last, log>>
    \/ \E f \in SeqFrames, report \in Reports :
          pytest_runtest_makereport(f, report) /\ UNCHANGED <<hist, last, log>>

Spec == Init /\ [][Next]_vars

(* The runner up to and during one execution, keeping in hist the reports
   recorded since the table entry was cleared at plugin.py:125. *)

NextOrder ==
    \/ \E no_otel, configure_raises \in BOOLEAN :
          pytest_configure(no_otel, configure_raises) /\ UNCHANGED <<hist, last, log>>
    \/ \E f \in SeqFrames, n \in NodeIds, start_raises \in BOOLEAN :
          /\ pytest_runtest_protocol_enter(f, n, start_raises)
          /\ hist' = [hist EXCEPT ![f] = <<>>]
          /\ UNCHANGED <<last, log>>
    \/ \E f \in SeqFrames, report \in Reports :
          /\ Len(hist[f]) < MaxReports
          /\ pytest_runtest_makereport(f, report)
          /\ hist' = [hist EXCEPT ![f] = IF _enabled THEN Append(@, report) ELSE @]
          /\ UNCHANGED <<last, log>>

SpecOrder == Init /\ [][NextOrder]_vars

(* Two wrapper frames at once, as when the runner runs tests in several
   threads of one process: the executions are of distinct nodeids and their
   hook calls interleave in any order. *)

OthersRun(f, n) == \A g \in Frames \ {f} : pc[g] = "idle" \/ item[g] # n

NextInterleaved ==
    \/ \E no_otel, configure_raises \in BOOLEAN :
          pytest_configure(no_otel, configure_raises) /\ UNCHANGED <<hist, last, log>>
    \/ \E f \in Frames, n \in NodeIds, start_raises \in BOOLEAN :
          /\ OthersRun(f, n)
          /\ pytest_runtest_protocol_enter(f, n, start_raises)
          /\ UNCHANGED <<hist, last, log>>
    \/ \E f \in Frames, how \in Hows, recRaises, endRaises \in BOOLEAN :
          pytest_runtest_protocol_exit(f, how, recRaises, endRaises) /\ UNCHANGED <<hist, last, log>>
    \/ \E f \in Frames, report \in Reports :
          pytest_runtest_makereport(f, report) /\ UNCHANGED <<hist, last, log>>

SpecInterleaved == Init /\ [][NextInterleaved]_vars

(* The runner executing nodeids again and again (retries); last keeps what
   the wrapper found in the table for its nodeid when it was entered. *)

NextRetry ==
    \/ \E no_otel, configure_raises \in BOOLEAN :
          pytest_configure(no_otel, configure_raises) /\ UNCHANGED <<hist, last, log>>
    \/ \E shutdown_raises \in BOOLEAN :
          pytest_unconfigure(shutdown_raises) /\ UNCHANGED <<hist, last, log>>
    \/ \E f \in SeqFrames, n \in NodeIds, start_raises \in BOOLEAN :
          /\ pytest_runtest_protocol_enter(f, n, start_raises)
          /\ last' = [hook |-> "runtest_protocol", enabled |-> _enabled,
                      nodeid |-> n, found |-> _test_outcomes[n]]
          /\ UNCHANGED <<hist, log>>
    \/ \E f \in SeqFrames, how \in Hows, recRaises, endRaises \in BOOLEAN :
          pytest_runtest_protocol_exit(f, how, recRaises, endRaises) /\ UNCHANGED <<hist, last, log>>
    \/ \E f \in SeqFrames, report \in Reports :
          pytest_runtest_makereport(f, report) /\ UNCHANGED <<hist, last, log>>

SpecRetry == Init /\ [][NextRetry]_vars

(* The runner with every hook of the plugin, called whether or not the
   plugin is enabled; the module's state outlives a session, so a session
   may be configured while an earlier one is still configured (sessions run
   in-process one inside the other).  Reports carry captured
   output of fixed size and are failed exactly when the phase raised
   (call.excinfo), the collaborators of the report hook may fail one at a
   time, and last keeps
   what the latest hook call other than the protocol wrapper was given and
   did (the wrapper's calls are in trace). *)

HookReports ==
    {r \in CaptureReports : /\ r.capstdout.len = StdioCap
                            /\ r.capstderr.len = StdioCap
                            /\ r.longrepr.len = ReprCap}

\* At most one collaborator fails in a call.
HookIOs ==
    {io \in IOs : Cardinality({k \in {"span_raises", "logger_raises", "emit_raises",
                                       "rec_raises"} : io[k]}) <= 1}

NextHooks ==
    \/ \E no_otel, configure_raises \in BOOLEAN :
          /\ pytest_configure(no_otel, configure_raises)
          /\ last' = [hook |-> "configure", enabled |-> _enabled,
                      no_otel |-> no_otel, configure_raises |-> configure_raises]
          /\ UNCHANGED <<hist, log>>
    \/ \E shutdown_raises \in BOOLEAN :
          /\ pytest_unconfigure(shutdown_raises)
          /\ last' = [hook |-> "unconfigure", enabled |-> _enabled,
                      shutdown_raises |-> shutdown_raises,
                      before |-> <<_log_handler, root_handlers>>]
          /\ UNCHANGED <<hist, log>>
    \/ \E start_raises \in BOOLEAN :
          pytest_sessionstart(start_raises) /\ UNCHANGED <<hist, log>>
    \/ \E exitstatus \in ExitStatuses, end_raises \in BOOLEAN :
          pytest_sessionfinish(exitstatus, end_raises) /\ UNCHANGED <<hist, log>>
    \/ \E f \in SeqFrames, n \in NodeIds, start_raises \in BOOLEAN :
          pytest_runtest_protocol_enter(f, n, start_raises) /\ UNCHANGED <<hist, last, log>>
    \/ \E f \in SeqFrames, how \in Hows, recRaises, endRaises \in BOOLEAN :
          pytest_runtest_protocol_exit(f, how, recRaises, endRaises) /\ UNCHANGED <<hist, last, log>>
    \/ \E f \in SeqFrames, report \in HookReports, io \in HookIOs :
          /\ pytest_runtest_makereport(f, report)
          /\ LET r == ReportInstrumentation(_enabled, item[f], report, report.failed, io)
             IN  last' = [hook |-> "makereport", enabled |-> _enabled,
                          report |-> report, excinfo |-> report.failed,
                          span |-> SpanOf(item[f], io.span),
                          calls |-> r.calls, artifacts |-> r.artifacts,
                          caught |-> r.caught, raised |-> r.raised]
          /\ UNCHANGED <<hist, log>>

SpecHooks == Init /\ [][NextHooks]_vars

(* One report hook call in full: the wrapper of t1 is at its yield, with
   the plugin disabled, or enabled and either no report seen yet or a failed
   call report already tracked; last holds the report about to be made and
   the behaviour of the hook's collaborators. *)

FailedCall ==
    [when |-> "call", failed |-> TRUE, skipped |-> FALSE, outcome |-> "failed"]

Pending ==
    {[hook |-> "pending", report |-> r, excinfo |-> e, io |-> io] :
        r \in CaptureReports, e \in BOOLEAN, io \in IOs}

AtReport ==
    /\ _enabled \in BOOLEAN
    /\ _log_handler = IF _enabled THEN <<1>> ELSE None
    /\ root_handlers = IF _enabled THEN {<<1>>} ELSE {}
    /\ made = IF _enabled THEN 1 ELSE 0
    /\ \E entry \in {Absent, Track(Absent, FailedCall)} :
          /\ ~_enabled => entry = Absent
          /\ _test_outcomes = [n \in NodeIds |-> IF n = "t1" THEN entry ELSE Absent]
          /\ seen = [f \in Frames |->
                IF f = "f1" /\ entry # Absent THEN Observe(NoSeen, FailedCall)
                                              ELSE NoSeen]
    /\ pc = [f \in Frames |->
            IF f # "f1" THEN "idle" ELSE IF _enabled THEN "yield137" ELSE "yield122"]
    /\ item = [f \in Frames |-> "t1"]
    /\ wrapped = [f \in Frames |-> NoHow]
    /\ exit = [f \in Frames |-> NoHow]
    /\ trace = [f \in Frames |->
            IF f # "f1" THEN <<>>
            ELSE IF _enabled
                THEN <<Ev("pop", "-", TRUE), Ev("start_test", "-", TRUE),
                       Ev("yield", "-", TRUE)>>
                ELSE <<Ev("yield", "-", TRUE)>>]
    /\ hist = [f \in Frames |-> <<>>]
    /\ log = NoLog

InitCapture == AtReport /\ last \in Pending

NextCapture ==
    \E f \in SeqFrames :
        /\ last.hook = "pending"
        /\ pytest_runtest_makereport(f, last.report)
        /\ LET r == ReportInstrumentation(_enabled, item[f], last.report,
                                          last.excinfo, last.io)
           IN  last' = [hook |-> "makereport", enabled |-> _enabled,
                        report |-> last.report, excinfo |-> last.excinfo,
                        io |-> last.io, before |-> _test_outcomes[item[f]],
                        span |-> SpanOf(item[f], last.io.span),
                        calls |-> r.calls, artifacts |-> r.artifacts,
                        caught |-> r.caught, raised |-> r.raised]
        /\ UNCHANGED <<hist, log>>

SpecCapture == InitCapture /\ [][NextCapture]_vars

(* The same, or one call of emit_stdio_log by a caller that may ask for the
   end-of-stream mark. *)

PendingEmits ==
    {[hook |-> "pending_emit", body |-> Text("body", n), stream |-> s,
      span |-> SpanOf("t1", k), eof |-> e, logger_raises |-> lr, emit_raises |-> er] :
        n \in StdioLens, s \in {STDIO_STREAM_STDOUT, STDIO_STREAM_STDERR},
        k \in SpanKinds, e \in BOOLEAN, lr \in BOOLEAN, er \in BOOLEAN}

InitStdio == AtReport /\ last \in Pending \cup PendingEmits

emit_stdio_log_call ==
    /\ last.hook = "pending_emit"
    /\ LET r == emit_stdio_log(last.body, last.stream, last.span, last.eof,
                               last.logger_raises, last.emit_raises)
       IN  last' = [hook |-> "emit_stdio_log", body |-> last.body,
                    stream |-> last.stream, span |-> last.span, eof |-> last.eof,
                    raised |-> r.raised, artifacts |-> r.artifacts]
    /\ UNCHANGED <<configVars, _test_outcomes, frameVars, hist, log>>

NextStdio ==
    \/ NextCapture
    \/ emit_stdio_log_call

SpecStdio == InitStdio /\ [][NextStdio]_vars

(* One record reaching the handler that a successful pytest_configure put on
   the root logger: log holds the record, the behaviour of the handler's
   collaborators, and whether the handler has its logger from an earlier
   record (self._otel_logger). *)

PendingLogs ==
    {[handled |-> FALSE, cached |-> c, record |-> r, io |-> io] :
        c \in BOOLEAN, r \in LogRecords, io \in LogIOs}

InitLog ==
    /\ _enabled = TRUE
    /\ _log_handler = <<1>>
    /\ root_handlers = {<<1>>}
    /\ made = 1
    /\ _test_outcomes = [n \in NodeIds |-> Absent]
    /\ pc = [f \in Frames |-> "idle"]
    /\ item = [f \in Frames |-> "t1"]
    /\ wrapped = [f \in Frames |-> NoHow]
    /\ exit = [f \in Frames |-> NoHow]
    /\ trace = [f \in Frames |-> <<>>]
    /\ seen = [f \in Frames |-> NoSeen]
    /\ hist = [f \in Frames |-> <<>>]
    /\ last = NoHook
    /\ log \in PendingLogs

(* OtelLogHandler.emit: logging_handler.py:72-127 *)

OtelLogHandler_emit ==
    /\ root_handlers # {}
    /\ ~log.handled /\ "record" \in DOMAIN log
    /\ log' = Handled(log.cached, log.record, log.io)
    /\ UNCHANGED <<configVars, _test_outcomes, frameVars, hist, last>>

NextLog == OtelLogHandler_emit

SpecLog == InitLog /\ [][NextLog]_vars

----------------------------------------------------------------------------
(* What the formulas below read off a frame *)

AtYield(f) == pc[f] \in {"yield122", "yield132", "yield137"}
Exited(f) == pc[f] = "exited"
Calls(f, op) == SelectSeq(trace[f], LAMBDA e : e.op = op)
Started(f) == \E i \in 1..Len(trace[f]) : trace[f][i] = Ev("start_test", "-", TRUE)
EnabledRun(f) == trace[f] # <<>> /\ trace[f][1].op = "pop"
EndCalls(f) == Calls(f, "end_test")
EndOutcome(f) == EndCalls(f)[1].arg
Rank(o) == CASE o = "failed" -> 3 [] o = "error" -> 2 [] o = "skipped" -> 1 [] OTHER -> 0

----------------------------------------------------------------------------
\* C1: once a report with failed=True has been processed in an execution, the
\* tracked outcome of the nodeid is "failed" whatever reports follow, and when
\* the wrapped protocol returns normally the span is ended with "failed".
C1_FailedSticks ==
    \A f \in Frames :
        seen[f].failed =>
            /\ pc[f] \in {"yield132", "yield137"} => _test_outcomes[item[f]] = "failed"
            /\ (Exited(f) /\ Started(f) /\ wrapped[f].kind = "return")
                  => EndOutcome(f) = "failed"

C1_Witness ==
    \E f \in Frames :
        /\ Exited(f) /\ Started(f) /\ wrapped[f].kind = "return"
        /\ seen[f].failed /\ seen[f].late /\ seen[f].skipped
        /\ EndOutcome(f) = "failed"

\* C2: the outcome the span is ended with obeys failed > error > skipped >
\* passed over the reports and an escaping (ordinary) exception: in particular
\* a recorded failed report followed by an escaping exception ends "failed".
C2_PrecedenceAtExit ==
    \A f \in Frames :
        (/\ Exited(f) /\ Started(f) /\ ~seen[f].conflicting
         /\ wrapped[f].kind = "raise" => IsException(wrapped[f].val))
        => EndOutcome(f) =
              IF seen[f].failed THEN "failed"
              ELSE IF wrapped[f].kind = "raise" THEN "error"
              ELSE IF seen[f].skipped THEN "skipped"
              ELSE "passed"

\* C3: after pytest_runtest_protocol has exited, on every exit path of an
\* enabled plugin, the table holds no entry for the nodeid.
C3_NoEntryAfterExit ==
    \A f \in Frames :
        (Exited(f) /\ EnabledRun(f)) => _test_outcomes[item[f]] = Absent

\* C4: an exception raised by the wrapped execution leaves
\* pytest_runtest_protocol as that same exception, also when
\* tracer.record_exception or tracer.end_test fails.
C4_SameException ==
    \A f \in Frames :
        (Exited(f) /\ wrapped[f].kind = "raise") => exit[f] = wrapped[f]

\* C5: whenever the wrapped execution exits by raising, a cancellation that is
\* no Exception subclass included, the span is ended with "error" or "failed"
\* and the table cleanup and tracer.end_test have run.
C5_RaiseEndsErrorOrFailed ==
    \A f \in Frames :
        (Exited(f) /\ Started(f) /\ wrapped[f].kind = "raise") =>
            /\ Len(EndCalls(f)) = 1
            /\ Len(Calls(f, "pop")) = 2
            /\ EndOutcome(f) \in {"error", "failed"}

\* C6: the wrapped execution runs exactly once on every path (disabled,
\* start_test failing, instrumented), and on normal completion its result is
\* returned unchanged even if tracer.end_test fails.
C6_YieldOnceResultUnchanged ==
    \A f \in Frames :
        /\ pc[f] # "idle" => Len(Calls(f, "yield")) = 1
        /\ (Exited(f) /\ wrapped[f].kind = "return") => exit[f] = wrapped[f]

C6_Witness ==
    \E f \in Frames :
        /\ Exited(f) /\ Started(f) /\ wrapped[f].kind = "return"
        /\ EndCalls(f) # <<>> /\ ~EndCalls(f)[1].ok
        /\ exit[f] = wrapped[f]

\* C7: when tracer.start_test succeeded, tracer.end_test is called exactly
\* once, after the wrapped execution and before the wrapper exits, on every
\* exit path; never twice, never left out.
C7_EndTestExactlyOnce ==
    \A f \in Frames :
        /\ pc[f] = "yield137" => (Started(f) /\ EndCalls(f) = <<>>)
        /\ (Exited(f) /\ Started(f)) =>
              /\ Len(EndCalls(f)) = 1
              /\ trace[f][Len(trace[f])].op = "end_test"
              /\ \E i \in 1..Len(trace[f]) - 1 : trace[f][i].op = "yield"
        /\ ~Started(f) => EndCalls(f) = <<>>

C7_Witness ==
    \E f \in Frames :
        /\ Exited(f) /\ Started(f)
        /\ wrapped[f].kind = "raise" /\ exit[f].val = RecordError
        /\ Len(EndCalls(f)) = 1

\* C8: within one execution each report leaves the tracked outcome at the same
\* or a higher precedence (failed > error > skipped > passed) than before.
C8_NeverBackward ==
    [][\A f \in Frames :
          (AtYield(f) /\ pc'[f] = pc[f]) =>
              Rank(Get(_test_outcomes', item[f])) >= Rank(Get(_test_outcomes, item[f]))]_vars

C8_Witness ==
    \E f \in Frames :
        /\ pc[f] = "yield137" /\ _test_outcomes[item[f]] = "failed"
        /\ seen[f].skipped /\ seen[f].late

\* Recording the reports of a sequence one after the other, from an empty entry.
RECURSIVE Recorded(_, _)
Recorded(entry, reports) ==
    IF reports = <<>> THEN entry
    ELSE Recorded(Track(entry, Head(reports)), Tail(reports))

Orders(k) == {p \in [1..k -> 1..k] : \A i, j \in 1..k : p[i] = p[j] => i = j}
Reordered(reports, p) == [i \in 1..Len(reports) |-> reports[p[i]]]

\* C9 as claimed: the tracked outcome does not depend on the order in which the
\* reports of an execution are processed, for any combination of failed and
\* skipped flags and raw outcome.
C9_AnyOrderSameOutcome ==
    \A f \in Frames :
        pc[f] \in {"yield132", "yield137"} =>
            \A p \in Orders(Len(hist[f])) :
                Recorded(Absent, Reordered(hist[f], p)) = _test_outcomes[item[f]]

\* C9 as amended: the same, for reports among which no call report that is
\* neither failed nor skipped carries a raw outcome other than passed.
C9_OrderIndependent ==
    \A f \in Frames :
        (/\ pc[f] \in {"yield132", "yield137"}
         /\ \A i \in 1..Len(hist[f]) : ~Conflicting(hist[f][i]))
        => \A p \in Orders(Len(hist[f])) :
                Recorded(Absent, Reordered(hist[f], p)) = _test_outcomes[item[f]]

C9_Witness ==
    \E f \in Frames :
        /\ pc[f] = "yield137" /\ Len(hist[f]) = 2
        /\ hist[f][1].when = "teardown" /\ hist[f][1].skipped /\ ~hist[f][1].failed
        /\ hist[f][2].when = "call" /\ hist[f][2].outcome = "passed"
        /\ ~hist[f][2].failed /\ ~hist[f][2].skipped
        /\ _test_outcomes[item[f]] = "skipped"

\* C10: with no failed report and no escaping exception the span is ended with
\* "skipped" when some report was skipped and with "passed" otherwise, also
\* when no report was recorded (reports as pytest builds them: one that is
\* neither failed nor skipped has the raw outcome passed).
C10_SkippedElsePassed ==
    \A f \in Frames :
        (/\ Exited(f) /\ Started(f) /\ wrapped[f].kind = "return"
         /\ ~seen[f].failed /\ ~seen[f].conflicting)
        => EndOutcome(f) = IF seen[f].skipped THEN "skipped" ELSE "passed"

C10_Witness ==
    \E f \in Frames :
        /\ Exited(f) /\ Started(f) /\ wrapped[f].kind = "return"
        /\ ~seen[f].failed /\ seen[f].skipped /\ ~seen[f].conflicting
        /\ EndOutcome(f) = "skipped"

----------------------------------------------------------------------------
(* Captured output: claims checked under SpecCapture *)

Made == last.hook = "makereport"
Instrumented == Made /\ last.enabled
LookupsOk == ~last.io.span_raises /\ ~last.io.logger_raises
HasOutput(report) ==
    \/ report.capstdout.len > 0
    \/ report.capstderr.len > 0
    \/ (report.failed /\ report.longrepr.len > 0)
UltimatelyFailed == \E f \in SeqFrames : _test_outcomes[item[f]] = "failed"

\* C11 as stated: the output of a setup or teardown report is attached
\* whenever the test ultimately failed, and only then.
C11_AttachedIfTestFailed ==
    (Instrumented /\ LookupsOk /\ last.report.when # "call" /\ HasOutput(last.report))
    => (last.artifacts # <<>> <=> UltimatelyFailed)

\* C11: the output of a report is attached exactly when the report is a call
\* report or is itself failed (and carries some output); a failure tracked
\* from an earlier report of the same test does not make a later report
\* eligible.
C11_AttachedIfReportFailed ==
    (Instrumented /\ LookupsOk)
    => (last.artifacts # <<>>
            <=> /\ (last.report.when = "call" \/ last.report.failed)
                /\ HasOutput(last.report))

C11_Witness ==
    /\ Instrumented /\ LookupsOk
    /\ last.report.when = "teardown" /\ last.report.failed
    /\ last.before = Absent
    /\ last.artifacts # <<>>

EligibleReport == last.report.when = "call" \/ last.report.failed
Captured == Instrumented /\ LookupsOk /\ EligibleReport

\* C12: for an eligible report at most three artifacts are emitted, in the
\* order stdout on stream 1 if non-empty, stderr on stream 2 if non-empty,
\* then the failure detail on stream 2 exactly if the report is failed and
\* the detail is non-empty.
C12_AtMostThreeInOrder ==
    Captured =>
        LET r == last.report
            a == last.artifacts
            want == (IF r.capstdout.len > 0 THEN <<<<"capstdout", 1>>>> ELSE <<>>)
                    \o (IF r.capstderr.len > 0 THEN <<<<"capstderr", 2>>>> ELSE <<>>)
                    \o (IF r.failed /\ r.longrepr.len > 0
                            THEN <<<<"longrepr", 2>>>> ELSE <<>>)
        IN  /\ Len(a) <= 3
            /\ Len(a) = Len(want)
            /\ \A i \in 1..Len(a) : <<a[i].body.src, a[i].stream>> = want[i]

C12_Witness ==
    /\ Captured
    /\ last.report.when = "call" /\ last.report.failed
    /\ last.report.capstdout.len > 0 /\ last.report.capstderr.len > 0
    /\ last.report.longrepr.len > 0
    /\ Len(last.artifacts) = 3
    /\ last.artifacts[3].stream = 2 /\ last.artifacts[3].body.src = "longrepr"

\* C13: an artifact carries exactly the first 8192 characters of captured
\* stdout or stderr, or the first 16384 of the failure detail, when the text
\* is longer than that, and the text itself when it is not.
C13_TruncatedAtCap ==
    Captured =>
        \A i \in 1..Len(last.artifacts) :
            LET body == last.artifacts[i].body
                text == last.report[body.src]
                cap == IF body.src = "longrepr" THEN 16384 ELSE 8192
            IN  IF text.len > cap
                    THEN body.src = text.src /\ body.len = cap
                    ELSE body = text

C13_Witness ==
    /\ Captured
    /\ last.report.capstdout.len = 8193 /\ last.report.capstderr.len = 8192
    /\ last.report.longrepr.len = 16385
    /\ Len(last.artifacts) = 3
    /\ last.artifacts[1].body.len = 8192
    /\ last.artifacts[2].body = last.report.capstderr
    /\ last.artifacts[3].body.len = 16384

\* C14 as stated: with a span registered for the test every artifact is
\* emitted in a context built from that span, never in the ambient one.
C14_RegisteredSpanContext ==
    (Captured /\ last.span # NoSpan)
    => \A i \in 1..Len(last.artifacts) :
            last.artifacts[i].ctx = [kind |-> "span", id |-> last.span.id]

\* C15: with no span registered every artifact is still emitted, in the
\* ambient context, and _capture_test_output does not raise.
C15_NoSpanStillEmitted ==
    (Captured /\ last.span = NoSpan)
    => /\ ~last.caught
       /\ Len(last.artifacts) =
            (IF last.report.capstdout.len > 0 THEN 1 ELSE 0)
            + (IF last.report.capstderr.len > 0 THEN 1 ELSE 0)
            + (IF last.report.failed /\ last.report.longrepr.len > 0 THEN 1 ELSE 0)
       /\ \A i \in 1..Len(last.artifacts) :
            last.artifacts[i].ctx = [kind |-> "current", id |-> "-"]

C15_Witness ==
    /\ Captured /\ last.span = NoSpan
    /\ last.report.when = "call" /\ last.report.failed
    /\ Len(last.artifacts) = 3
    /\ ~last.caught

\* C16: the report hook returns the report and never raises, whichever of
\* tracer.record_exception, the span lookup, the logger lookup or the
\* emission fails, and the table already holds the outcome tracked for the
\* report.
C16_ReportHookNeverRaises ==
    Made =>
        /\ ~last.raised
        /\ last.enabled =>
             \A f \in SeqFrames :
                _test_outcomes[item[f]] = Track(last.before, last.report)

C16_Witness ==
    /\ Instrumented /\ ~last.raised
    /\ last.excinfo /\ last.report.when = "call" /\ last.report.failed
    /\ last.io.rec_raises /\ last.io.logger_raises /\ last.caught
    /\ last.calls[1] = Ev("record_exception", "t1", FALSE)
    /\ last.before = Absent
    /\ \E f \in SeqFrames : _test_outcomes[item[f]] = "failed"

----------------------------------------------------------------------------
(* The enabled/disabled gate: claims checked under SpecHooks *)

TracerOps == {"start_test", "end_test", "record_exception"}

\* C17 as stated: after pytest_configure with --no-otel or with a failing
\* otel_config.configure() the plugin is disabled and has no log handler;
\* and while it is disabled no hook calls the tracer, emits an artifact or
\* changes the table of tracked outcomes.
C17_DisabledIsPassThrough ==
    /\ [](/\ (last.hook = "configure" /\ (last.no_otel \/ last.configure_raises))
               => (~_enabled /\ _log_handler = None /\ root_handlers = {})
          /\ (last.hook \in {"sessionstart", "sessionfinish", "makereport"}
                /\ ~last.enabled)
               => (last.calls = <<>> /\ last.artifacts = <<>>)
          /\ \A f \in SeqFrames :
                pc[f] = "yield122" =>
                    \A i \in 1..Len(trace[f]) : trace[f][i].op \notin TracerOps)
    /\ [][~_enabled => _test_outcomes' = _test_outcomes]_vars

\* C18 as stated: after a successful pytest_configure the plugin is enabled
\* with a log handler; after pytest_unconfigure it is disabled with
\* _log_handler None, whether or not otel_config.shutdown() raised; and
\* pytest_unconfigure on a disabled plugin changes nothing.
C18_Lifecycle ==
    /\ (last.hook = "configure" /\ ~last.no_otel /\ ~last.configure_raises)
          => (_enabled /\ _log_handler # None)
    /\ last.hook = "unconfigure" => (~_enabled /\ _log_handler = None)
    /\ (last.hook = "unconfigure" /\ ~last.enabled)
          => <<_log_handler, root_handlers>> = last.before

----------------------------------------------------------------------------
(* The logging handler: claims checked under SpecLog *)

SeverityRank(s) ==
    CASE s = "DEBUG" -> 1 [] s = "INFO" -> 2 [] s = "WARN" -> 3
      [] s = "ERROR" -> 4 [] s = "FATAL" -> 5

PipelineOk ==
    /\ log.handled /\ ~log.io.format_raises
    /\ ~(log.io.span_recording /\ log.io.event_raises)
    /\ log.records # <<>>

\* C19: _get_severity is defined for every integer level and maps 50 and
\* above to FATAL, else 40 and above to ERROR, else 30 and above to WARN,
\* else 20 and above to INFO, and everything lower to DEBUG; a higher level
\* never gets a lower severity.
C19_SeverityLadder ==
    PipelineOk =>
        LET l == log.record.levelno
            s == log.records[1].severity_number
        IN  /\ s \in Severities
            /\ s = (IF l >= 50 THEN "FATAL" ELSE IF l >= 40 THEN "ERROR"
                    ELSE IF l >= 30 THEN "WARN" ELSE IF l >= 20 THEN "INFO"
                    ELSE "DEBUG")
            /\ \A h \in Levels :
                  h >= l => SeverityRank(_get_severity(h)) >= SeverityRank(s)

C19_Witness ==
    /\ PipelineOk
    /\ log.record.levelno = 45
    /\ log.records[1].severity_number = "ERROR"

\* C20 as stated: every record handled is added as an event named
\* log.<levelname in lower case> on the current span and emitted to the log
\* pipeline, with the same attributes.
C20_BothSinksAlways ==
    log.handled =>
        /\ Len(log.events) = 1 /\ Len(log.records) = 1
        /\ log.events[1].name = "log." \o Lower(log.record.levelname)
        /\ log.events[1].attributes = log.records[1].attributes

\* C20: a record that formats is added as an event named log.<levelname in
\* lower case> exactly when the current span is recording, and is given to
\* the log pipeline exactly when adding the event did not raise and the
\* handler has or gets its logger; an event and a pipeline record of the same
\* log record carry the same attributes.  A record that does not format
\* reaches neither sink.
C20_SinksWhenAvailable ==
    log.handled =>
        IF log.io.format_raises
            THEN log.events = <<>> /\ log.records = <<>> /\ log.handleError
        ELSE
            /\ Len(log.events) = (IF log.io.span_recording THEN 1 ELSE 0)
            /\ \A i \in 1..Len(log.events) :
                  log.events[i].name = "log." \o Lower(log.record.levelname)
            /\ Len(log.records) =
                  (IF /\ ~(log.io.span_recording /\ log.io.event_raises)
                      /\ (log.cached \/ ~log.io.logger_raises)
                   THEN 1 ELSE 0)
            /\ \A i \in 1..Len(log.events), j \in 1..Len(log.records) :
                  log.events[i].attributes = log.records[j].attributes

C20_Witness ==
    /\ log.handled /\ ~log.io.format_raises
    /\ log.io.span_recording
    /\ Len(log.events) = 1 /\ Len(log.records) = 1
    /\ log.events[1].name = "log.warning"
    /\ log.events[1].attributes = log.records[1].attributes
    /\ log.record.exc_info

----------------------------------------------------------------------------
(* Isolation between executions *)

\* The outcome an execution has on its own: what its own reports and its own
\* exit give, whatever else is in the table.
Alone(s) == IF s.failed THEN "failed" ELSE IF s.skipped THEN "skipped" ELSE "passed"
AloneAtExit(s, how) ==
    IF how.kind = "return" THEN Alone(s)
    ELSE IF how.val \in Exceptions THEN "error"
    ELSE "passed"

\* C21: with the hook calls of two executions of distinct nodeids interleaved
\* in any order, the tracked entry of each and the outcome its span is ended
\* with are those of the execution on its own; what is recorded or cleared
\* for one nodeid leaves the other's entry alone.
C21_Interleaved ==
    /\ [](\A f \in Frames :
            /\ (pc[f] = "yield137" /\ ~seen[f].conflicting)
                  => Get(_test_outcomes, item[f]) = Alone(seen[f])
            /\ (Exited(f) /\ Started(f) /\ ~seen[f].conflicting)
                  => EndOutcome(f) = AloneAtExit(seen[f], wrapped[f]))
    /\ [][\A n \in NodeIds :
            _test_outcomes'[n] # _test_outcomes[n]
            => \E f \in Frames : item'[f] = n /\ pc'[f] # "idle"]_vars

C21_Witness ==
    /\ pc["f1"] = "yield137" /\ pc["f2"] = "exited" /\ Started("f2")
    /\ item["f1"] # item["f2"]
    /\ seen["f1"].skipped /\ ~seen["f1"].failed /\ ~seen["f1"].conflicting
    /\ _test_outcomes[item["f1"]] = "skipped"
    /\ seen["f2"].failed /\ wrapped["f2"].kind = "return"
    /\ EndOutcome("f2") = "failed"

\* C22: the outcome an execution's span is ended with is given by the reports
\* and the exit of that execution alone, whatever an earlier execution of the
\* same nodeid left in the table, be it one that ran without a span because
\* tracer.start_test failed.
C22_RetryStartsClean ==
    \A f \in SeqFrames :
        /\ (pc[f] = "yield137" /\ seen[f] = NoSeen)
              => _test_outcomes[item[f]] \in {Absent, "passed"}
        /\ (Exited(f) /\ Started(f) /\ ~seen[f].conflicting
                /\ last.hook = "runtest_protocol" /\ last.nodeid = item[f])
              => EndOutcome(f) = AloneAtExit(seen[f], wrapped[f])

C22_Witness ==
    \E f \in SeqFrames :
        /\ Exited(f) /\ Started(f) /\ wrapped[f].kind = "return"
        /\ last.hook = "runtest_protocol" /\ last.nodeid = item[f]
        /\ last.found = "failed"
        /\ seen[f] = NoSeen
        /\ EndOutcome(f) = "passed"

\* C23: on leaving an instrumented execution the entry of the nodeid is
\* removed and only then tracer.end_test is called, so that the entry is gone
\* whether or not end_test fails; the outcome given to end_test after a
\* normal return is the one read from the table before the removal.
C23_ClearedBeforeEnd ==
    [][\A f \in SeqFrames :
        (pc[f] = "yield137" /\ pc'[f] = "exited")
        => LET t == trace'[f]
               k == Len(t)
           IN  /\ k >= 2
               /\ t[k].op = "end_test" /\ t[k - 1].op = "pop"
               /\ _test_outcomes'[item[f]] = Absent
               /\ wrapped'[f].kind = "return"
                    => t[k].arg = Get(_test_outcomes, item[f])]_vars

C23_Witness ==
    \E f \in SeqFrames :
        /\ Exited(f) /\ Started(f) /\ wrapped[f].kind = "return"
        /\ seen[f].failed
        /\ trace[f][Len(trace[f])] = Ev("end_test", "failed", FALSE)
        /\ trace[f][Len(trace[f]) - 1].op = "pop"
        /\ _test_outcomes[item[f]] = Absent

----------------------------------------------------------------------------
(* The attributes of an artifact: checked under SpecStdio *)

\* C24: an artifact emitted by emit_stdio_log carries stdio.stream equal to
\* the stream argument and carries stdio.eof (true) exactly when eof was
\* asked for; the artifacts of a phase report carry stream 1 or 2 and never
\* the end-of-stream mark.
C24_StreamAndEof ==
    /\ last.hook = "emit_stdio_log"
          => \A i \in 1..Len(last.artifacts) :
                LET attrs == last.artifacts[i].attributes
                IN  /\ {p[2] : p \in {q \in attrs : q[1] = "stdio.stream"}} = {last.stream}
                    /\ (\E p \in attrs : p[1] = "stdio.eof") <=> last.eof
                    /\ \A p \in attrs : p[1] = "stdio.eof" => p[2] = TRUE
    /\ Made
          => \A i \in 1..Len(last.artifacts) :
                LET attrs == last.artifacts[i].attributes
                IN  /\ \A p \in attrs : p[1] # "stdio.eof"
                    /\ \E p \in attrs : p[1] = "stdio.stream" /\ p[2] \in {1, 2}

C24_Witness ==
    /\ last.hook = "emit_stdio_log" /\ last.eof /\ last.stream = 2
    /\ Len(last.artifacts) = 1
    /\ last.artifacts[1].attributes = {<<"stdio.stream", 2>>, <<"stdio.eof", TRUE>>}

----------------------------------------------------------------------------
(* The handlers on the root logger: checked under SpecHooks *)

\* C25 as stated: after pytest_unconfigure, whatever calls of pytest_configure
\* and pytest_unconfigure came before it, no handler made by the plugin is
\* attached to the root logger.
C25_NoHandlerLeft ==
    last.hook = "unconfigure" => root_handlers = {}

====
